---------------------------- MODULE Spec2Model ----------------------------
(***************************************************************************)
(* Voice-Training-Script-Generator: the WPM analyzer (calculate_wpm.py)    *)
(* and the script generator (generate_text.py) as state machines.          *)
(*                                                                         *)
(* Numbers.  Python floats are IEEE-754 binary64 values and are modelled   *)
(* as such: [s, m, e] stands for (-1)^s * m * 2^e, where m is zero or a    *)
(* 53-bit natural number held as little-endian limbs in base 2^15 (TLC's   *)
(* integers are 32 bits wide).  Division, multiplication and addition      *)
(* round to nearest, ties to even, as the hardware does; int() truncates;  *)
(* round(x, k) rounds the exact binary value to k decimals, ties to even,  *)
(* as CPython's float.__round__ does.  Subnormals, infinities and NaN are  *)
(* outside the ranges used here.                                           *)
(*                                                                         *)
(* Durations on the generator's command line are given in quarter minutes  *)
(* (Tq = 28 is --duration 7, dq = 2 is --chunk-duration 0.5): such values  *)
(* are exactly the floats float() parses them to.  Audio lengths are in    *)
(* milliseconds, as pydub reports them.  A value produced by round(x, k)   *)
(* is kept as the integer n with value n / 10^k (150.0 is 1500 tenths).    *)
(*                                                                         *)
(* Texts are sequences of Unicode code points: <<97, 32, 98>> is "a b".     *)
(***************************************************************************)
EXTENDS Integers, Sequences, FiniteSets, TLC

(***************************************************************************)
(* Natural numbers of any size                                             *)
(***************************************************************************)
Base == 32768
LimbBits == 15

RECURSIVE Pow2(_)
Pow2(n) == IF n = 0 THEN 1 ELSE 2 * Pow2(n - 1)

RECURSIVE Pow10(_)
Pow10(n) == IF n = 0 THEN 1 ELSE 10 * Pow10(n - 1)

RECURSIVE BNorm(_)
BNorm(x) == IF x = <<>> THEN x
            ELSE IF x[Len(x)] = 0 THEN BNorm(SubSeq(x, 1, Len(x) - 1)) ELSE x

RECURSIVE BFromNat(_)
BFromNat(n) == IF n = 0 THEN <<>> ELSE <<n % Base>> \o BFromNat(n \div Base)

RECURSIVE BToNat(_)
BToNat(x) == IF x = <<>> THEN 0 ELSE x[1] + Base * BToNat(Tail(x))

Max(a, b) == IF a >= b THEN a ELSE b

Min(a, b) == IF a <= b THEN a ELSE b

Limb(x, i) == IF i <= Len(x) THEN x[i] ELSE 0

RECURSIVE BitLenNat(_)
BitLenNat(n) == IF n = 0 THEN 0 ELSE 1 + BitLenNat(n \div 2)

BitLen(x) == IF x = <<>> THEN 0 ELSE LimbBits * (Len(x) - 1) + BitLenNat(x[Len(x)])

\* -1, 0, 1 as x <, =, > y
RECURSIVE BCmpFrom(_, _, _)
BCmpFrom(x, y, i) == IF i = 0 THEN 0
                     ELSE IF x[i] < y[i] THEN -1
                     ELSE IF x[i] > y[i] THEN 1
                     ELSE BCmpFrom(x, y, i - 1)

BCmp(x, y) == IF Len(x) < Len(y) THEN -1
              ELSE IF Len(x) > Len(y) THEN 1
              ELSE BCmpFrom(x, y, Len(x))

RECURSIVE BAddFrom(_, _, _, _)
BAddFrom(x, y, i, c) ==
    IF i > Len(x) /\ i > Len(y) THEN (IF c = 0 THEN <<>> ELSE <<c>>)
    ELSE LET s == Limb(x, i) + Limb(y, i) + c
         IN <<s % Base>> \o BAddFrom(x, y, i + 1, s \div Base)

BAdd(x, y) == BAddFrom(x, y, 1, 0)

\* x - y for x >= y
RECURSIVE BSubFrom(_, _, _, _)
BSubFrom(x, y, i, b) ==
    IF i > Len(x) THEN <<>>
    ELSE LET d == x[i] - Limb(y, i) - b
         IN IF d < 0 THEN <<d + Base>> \o BSubFrom(x, y, i + 1, 1)
            ELSE <<d>> \o BSubFrom(x, y, i + 1, 0)

BSub(x, y) == BNorm(BSubFrom(x, y, 1, 0))

\* x * k for 0 <= k <= Base
RECURSIVE BMulSmallFrom(_, _, _, _)
BMulSmallFrom(x, k, i, c) ==
    IF i > Len(x) THEN (IF c = 0 THEN <<>> ELSE <<c>>)
    ELSE LET p == x[i] * k + c
         IN <<p % Base>> \o BMulSmallFrom(x, k, i + 1, p \div Base)

BMulSmall(x, k) == IF k = 0 THEN <<>> ELSE BMulSmallFrom(x, k, 1, 0)

Zeros(n) == [i \in 1..n |-> 0]

\* x * 2^n
BShl(x, n) == IF x = <<>> THEN x
              ELSE Zeros(n \div LimbBits) \o BMulSmall(x, Pow2(n % LimbBits))

RECURSIVE BMulFrom(_, _, _)
BMulFrom(x, y, i) ==
    IF i > Len(y) THEN <<>>
    ELSE BAdd(IF y[i] = 0 THEN <<>> ELSE Zeros(i - 1) \o BMulSmall(x, y[i]),
              BMulFrom(x, y, i + 1))

BMul(x, y) == BMulFrom(x, y, 1)

\* <<x div k, x mod k>> for 1 <= k <= Base
RECURSIVE BDivSmallFrom(_, _, _, _)
BDivSmallFrom(x, k, i, r) ==
    IF i = 0 THEN <<<<>>, r>>
    ELSE LET cur == r * Base + x[i]
             rest == BDivSmallFrom(x, k, i - 1, cur % k)
         IN <<Append(rest[1], cur \div k), rest[2]>>

BNormQuot(qr) == <<BNorm(qr[1]), qr[2]>>

BDivSmall(x, k) == BNormQuot(BDivSmallFrom(x, k, Len(x), 0))

AnyNonZero(x, n) == \E i \in 1..n : i <= Len(x) /\ x[i] # 0

\* <<x div 2^n, whether x mod 2^n is not 0>>
BDropLimbs(x, w) == IF w >= Len(x) THEN <<>> ELSE SubSeq(x, w + 1, Len(x))

BShrLimbs(x, w, d) == <<d[1], AnyNonZero(x, w) \/ d[2] # 0>>

BShr(x, n) ==
    BShrLimbs(x, n \div LimbBits,
              BDivSmall(BDropLimbs(x, n \div LimbBits), Pow2(n % LimbBits)))

BOdd(x) == x # <<>> /\ x[1] % 2 = 1

\* x / 2^n (and, with sticky, a nonzero fraction below it) rounded to the
\* nearest integer, ties to even
BRoundUp(q, guard, st) == IF guard /\ (st \/ BOdd(q)) THEN BAdd(q, <<1>>) ELSE q

\* a holds x / 2^(n-1): its lowest bit is the guard bit
BRoundHalf(a, sticky) == BRoundUp(BShr(a[1], 1)[1], BOdd(a[1]), a[2] \/ sticky)

BRoundShr(x, n, sticky) == IF n = 0 THEN x ELSE BRoundHalf(BShr(x, n - 1), sticky)

\* the largest q with q * d <= r, given an estimate qh >= q
RECURSIVE BFixQuot(_, _, _)
BFixQuot(r, d, qh) ==
    IF BCmp(BMulSmall(d, qh), r) > 0 THEN BFixQuot(r, d, qh - 1) ELSE qh

\* one limb of a quotient: <<r div d, r mod d>> for r < d * Base, where the
\* top limb of d is at least Base / 2
BQuotEstimate(r, d, n) == Min(Base - 1, (Limb(r, n + 1) * Base + Limb(r, n)) \div d[n])

BQuotRem(r, d, q) == <<q, BSub(r, BMulSmall(d, q))>>

BQuotLimb(r, d) == BQuotRem(r, d, BFixQuot(r, d, BQuotEstimate(r, d, Len(d))))

\* <<(r * Base^k) div d, whether a remainder is left>> for r < d
RECURSIVE BDivLimbs(_, _, _, _)
BDivNext(ql, d, k, q) == BDivLimbs(ql[2], d, k - 1, <<ql[1]>> \o q)

BDivLimbs(r, d, k, q) ==
    IF k = 0 THEN <<BNorm(q), r # <<>>>>
    ELSE BDivNext(BQuotLimb(BShl(r, LimbBits), d), d, k, q)

(***************************************************************************)
(* binary64                                                                *)
(***************************************************************************)
MantBits == 53
QuotLimbs == 4
NormShift == 7

FZero == [s |-> 0, m |-> <<>>, e |-> 0]

IsZero(a) == a.m = <<>>

\* the exact value (-1)^s * (x + a fraction, when sticky) * 2^e, rounded
\* rounding up may carry into a 54th bit
FRenorm(s, q, e) ==
    IF BitLen(q) > MantBits THEN [s |-> s, m |-> BShr(q, 1)[1], e |-> e + 1]
    ELSE [s |-> s, m |-> q, e |-> e]

FRoundBits(s, x, e, sticky, L) ==
    IF L <= MantBits
    THEN [s |-> s, m |-> BShl(x, MantBits - L), e |-> e - (MantBits - L)]
    ELSE FRenorm(s, BRoundShr(x, L - MantBits, sticky), e + (L - MantBits))

FRound(s, x, e, sticky) == IF x = <<>> THEN FZero ELSE FRoundBits(s, x, e, sticky, BitLen(x))

\* float(n)
FFromInt(n) == IF n < 0 THEN FRound(1, BFromNat(-n), 0, FALSE)
               ELSE FRound(0, BFromNat(n), 0, FALSE)

\* a / b for b # 0
FQuotient(s, qr, lead, e) == FRound(s, BAdd(qr[1], lead), e, qr[2])

\* n / d * 2^e for mantissas n, d: the quotient's integer part is 0 or 1
FDivMant(s, n, d, e) ==
    IF BCmp(n, d) >= 0
    THEN FQuotient(s, BDivLimbs(BSub(n, d), d, QuotLimbs, <<>>),
                   BShl(<<1>>, QuotLimbs * LimbBits), e - QuotLimbs * LimbBits)
    ELSE FQuotient(s, BDivLimbs(n, d, QuotLimbs, <<>>), <<>>, e - QuotLimbs * LimbBits)

FDiv(a, b) ==
    IF a.m = <<>> THEN FZero
    ELSE FDivMant((a.s + b.s) % 2, BShl(a.m, NormShift), BShl(b.m, NormShift), a.e - b.e)

\* a * b
FMul(a, b) ==
    IF a.m = <<>> \/ b.m = <<>> THEN FZero
    ELSE FRound((a.s + b.s) % 2, BMul(a.m, b.m), a.e + b.e, FALSE)

FAddAt(a, b, e) == FRound(0, BAdd(BShl(a.m, a.e - e), BShl(b.m, b.e - e)), e, FALSE)

\* a + b for a, b >= 0
FAdd(a, b) ==
    IF a.m = <<>> THEN b
    ELSE IF b.m = <<>> THEN a
    ELSE FAddAt(a, b, Min(a.e, b.e))

Signed(s, n) == IF s = 1 THEN -n ELSE n

\* x * 2^e rounded to the nearest integer, ties to even
BScaleRound(x, e) == IF e >= 0 THEN BShl(x, e) ELSE BRoundShr(x, -e, FALSE)

\* int(a): truncation toward zero
FTrunc(a) ==
    IF a.m = <<>> THEN 0
    ELSE Signed(a.s, BToNat(IF a.e >= 0 THEN BShl(a.m, a.e) ELSE BShr(a.m, -a.e)[1]))

\* round(a, k), in units of 10^-k
FRoundDec(a, k) ==
    IF a.m = <<>> THEN 0
    ELSE Signed(a.s, BToNat(BScaleRound(BMulSmall(a.m, Pow10(k)), a.e)))

\* the float a value n / 10^k printed by round() denotes
FDec(n, k) == FDiv(FFromInt(n), FFromInt(Pow10(k)))

\* a quarter-minute count as the float of minutes
FQuarters(q) == FDiv(FFromInt(q), FFromInt(4))

(***************************************************************************)
(* Text                                                                    *)
(***************************************************************************)
\* the code points c with chr(c).isspace(): what str.split() and str.strip()
\* take as separators -- \t \n \v \f \r, the separators FS GS RS US, the
\* space, NEL, the no-break space and the Unicode spaces
Whitespace ==
    (9..13) \cup (28..32) \cup {133, 160, 5760} \cup (8192..8202)
        \cup {8232, 8233, 8239, 8287, 12288}

\* str.strip()
RECURSIVE LStrip(_)
LStrip(t) == IF t # <<>> /\ t[1] \in Whitespace THEN LStrip(Tail(t)) ELSE t

RECURSIVE RStrip(_)
RStrip(t) == IF t # <<>> /\ t[Len(t)] \in Whitespace
             THEN RStrip(SubSeq(t, 1, Len(t) - 1)) ELSE t

Strip(t) == RStrip(LStrip(t))

\* str.split(): the runs of non-whitespace characters, in order; cur is the
\* run being read
RECURSIVE SplitFrom(_, _, _)
SplitFrom(t, i, cur) ==
    IF i > Len(t) THEN (IF cur = <<>> THEN <<>> ELSE <<cur>>)
    ELSE IF t[i] \in Whitespace
         THEN (IF cur = <<>> THEN <<>> ELSE <<cur>>) \o SplitFrom(t, i + 1, <<>>)
         ELSE SplitFrom(t, i + 1, Append(cur, t[i]))

Split(t) == SplitFrom(t, 1, <<>>)

\* len(text.split())
count_words(text) == Len(Split(text))

RECURSIVE SumSeq(_)
SumSeq(s) == IF s = <<>> THEN 0 ELSE s[1] + SumSeq(Tail(s))

(***************************************************************************)
(* State                                                                   *)
(***************************************************************************)
VARIABLES
    \* the environment both tools read
    api_key,            \* os.environ.get("GEMINI_API_KEY"): None or Some(string)
    now,                \* the wall clock, in seconds
    \* generate_text.py: its surroundings
    config_file,        \* config.json beside the script: None or Some(dict)
    fs,                 \* the files under the script's directory: path -> content
    dirs,               \* the directories created there
    \* generate_text.py: one run of main()
    pc,                 \* "idle", "main" (line 241), "gen" (line 291), "call" (a
                        \* generate_content call is waiting), "save" (inside
                        \* save_output), "saved" (line 197), "print" (line 317),
                        \* "exit"
    args,               \* the parsed command line
    wpm,
    style,
    num_chunks,
    chunk_duration,
    i,                  \* the loop variable of line 291
    generated_texts,
    save_dir,           \* save_output's session_dir: None outside save_output
    save_i,             \* the loop variable of line 160
    session_dir,        \* None until save_output has returned
    exit_code,          \* None while running
    error,              \* what ended the run
    requests,           \* the generate_content calls this run has made
    written,            \* the directories this run has created, the files it has
                        \* opened for writing
    runs,               \* runs of the generator started so far
    \* calculate_wpm.py: its surroundings
    wpm_measure_dir,    \* None, or Some(the files in wpm-measure/)
    user_context,       \* whether user-context/ exists
    output_file,        \* user-context/wpm-analysis.json: None or Some(content)
    uploaded,           \* the files uploaded to the remote service
    \* calculate_wpm.py: one run of main()
    wpc,                \* "idle", "main" (line 85), "loop" (line 114), "upload" and
                        \* "transcribe" (the remote call is waiting), "write"
                        \* (lines 158-159), "print" (line 161), "exit"
    mp3_files,
    idx,                \* position of the loop of line 114 in mp3_files
    results,
    output,             \* the report of line 144: None until it is built
    locals,             \* duration, transcript, word_count, wpm of the last iteration
    wexit_code,
    werror,
    transcriptions,     \* the transcription calls this run has made
    report_written      \* whether this run has written output_file

envVars == <<api_key, now>>
genVars == <<config_file, fs, dirs, pc, args, wpm, style, num_chunks, chunk_duration,
             i, generated_texts, save_dir, save_i, session_dir, exit_code, error, requests, written, runs>>
wpmVars == <<wpm_measure_dir, user_context, output_file, uploaded, wpc, mp3_files, idx,
             results, output, locals, wexit_code, werror, transcriptions, report_written>>
vars == <<envVars, genVars, wpmVars>>

\* Python's None and a present value
None == <<>>
Some(v) == <<v>>

\* dict.get(key, default)
Get(d, key, default) == IF key \in DOMAIN d THEN d[key] ELSE default

\* a faulty variant: only the unset variable counts as missing
NoApiKeyUnsetOnly(key) == key = None

\* "not api_key": unset or empty
NoApiKey(key) == key = None \/ key[1] = ""

(***************************************************************************)
(* generate_text.py                                                        *)
(***************************************************************************)
DefaultWpm == 150
ExitFailure == 1
ExitInterrupted == 130

NoArgs == [duration |-> 0, style |-> None, chunks |-> 1, chunk_duration |-> None,
           topic |-> "", wpm |-> None]

calculate_word_count(duration_minutes, w) == FTrunc(FMul(duration_minutes, FFromInt(w)))

style_prompts ==
    [conversational |-> "Write in a natural, conversational tone as if speaking to a friend.",
     narrative      |-> "Write engaging narrative prose suitable for an audiobook.",
     technical      |-> "Write clear technical explanations or tutorials.",
     news_anchor    |-> "Write in a professional news broadcast style.",
     storytelling   |-> "Write immersive short stories or story excerpts.",
     educational    |-> "Write informative educational content suitable for a documentary.",
     podcast        |-> "Write in an engaging podcast monologue style."]

get_style_prompt(st) ==
    IF st \in DOMAIN style_prompts THEN style_prompts[st] ELSE style_prompts["conversational"]

Opening == "Start fresh with an engaging opening. "
Conclusion == "This is the final part - provide a satisfying conclusion. "
Continuation == "Continue naturally from a previous section. "

PartOf(chunk_number, total_chunks) ==
    "This is part " \o ToString(chunk_number) \o " of " \o ToString(total_chunks) \o ". "

\* a faulty variant: the framing is given to a single chunk too
ChunkContextAlways(chunk_number, total_chunks) ==
    <<PartOf(chunk_number, total_chunks),
      IF chunk_number = 1 THEN Opening
      ELSE IF chunk_number = total_chunks THEN Conclusion
      ELSE Continuation>>

\* lines 104-112: the sentences of chunk_context
ChunkContext(chunk_number, total_chunks) ==
    IF total_chunks > 1
    THEN <<PartOf(chunk_number, total_chunks),
           IF chunk_number = 1 THEN Opening
           ELSE IF chunk_number = total_chunks THEN Conclusion
           ELSE Continuation>>
    ELSE <<>>

\* lines 114-116
TopicContext(topic_hint) ==
    IF topic_hint # "" THEN <<"Focus on this topic area: " \o topic_hint \o ". ">> ELSE <<>>

\* lines 118-141: the parts of the prompt that vary, as sent to the model
Prompt(word_count, st, chunk_number, total_chunks, topic_hint) ==
    [word_count    |-> word_count,
     style_prompt  |-> get_style_prompt(st),
     chunk_number  |-> chunk_number,
     total_chunks  |-> total_chunks,
     chunk_context |-> ChunkContext(chunk_number, total_chunks),
     topic_context |-> TopicContext(topic_hint)]

\* line 248: args.wpm or config.get("wpm", 150)
PlanWpm(a, cfg) ==
    IF a.wpm # None /\ a.wpm[1] # 0 THEN a.wpm[1] ELSE Get(cfg, "wpm", DefaultWpm)

\* line 251
PlanStyle(a, cfg) ==
    IF a.style # None /\ a.style[1] # "" THEN a.style[1]
    ELSE Get(cfg, "default_style", "conversational")

\* lines 256-259; durations in quarter minutes
PlanChunks(a) ==
    IF a.chunk_duration # None /\ a.chunk_duration[1] # 0
    THEN Max(1, FTrunc(FDiv(FQuarters(a.duration), FQuarters(a.chunk_duration[1]))))
    ELSE a.chunks

\* line 261, for n # 0
PlanChunkDuration(a, n) == FDiv(FQuarters(a.duration), FFromInt(n))

\* line 314
OutputDir(cfg) == Get(cfg, "output_directory", "output")

\* {i:02d}
Fmt02d(n) == IF 0 <= n /\ n < 10 THEN "0" \o ToString(n) ELSE ToString(n)

\* lines 161-164: the name of the i-th text file
TextFileName(n, texts) ==
    IF Len(texts) = 1 THEN "script.txt" ELSE "chunk_" \o Fmt02d(n) \o ".txt"

\* a faulty variant: the metadata names a numbered file whatever the count
MetaFileNameNumbered(n, texts) == "chunk_" \o Fmt02d(n) \o ".txt"

\* line 178: the name the metadata records for the i-th text
MetaFileName(n, texts) ==
    IF Len(texts) > 1 THEN "chunk_" \o Fmt02d(n) \o ".txt" ELSE "script.txt"

\* line 156
SessionDir(output_dir, timestamp) == <<output_dir, "session_" \o ToString(timestamp)>>

\* what a file holds: a text, a JSON document, or the beginning of one that
\* was being written when the run was interrupted
TextContent(text) == [kind |-> "text", text |-> text]
JsonContent(data) == [kind |-> "json", data |-> data]
PartialContent == [kind |-> "partial"]

\* lines 180-181
EstimatedMinutes(words, w) == FRoundDec(FDiv(FFromInt(words), FFromInt(w)), 2)

\* lines 171-191, for w # 0
Metadata(texts, st, total_duration, w, generated_at) ==
    [generated_at |-> generated_at,
     style |-> st,
     target_duration_minutes |-> total_duration,
     wpm_used |-> w,
     chunks |-> [n \in 1..Len(texts) |->
                   [file |-> MetaFileName(n, texts),
                    target_word_count |-> texts[n].target_words,
                    actual_word_count |-> count_words(texts[n].text),
                    estimated_duration_minutes |->
                        EstimatedMinutes(count_words(texts[n].text), w)]],
     totals |-> [total_words |-> SumSeq([n \in 1..Len(texts) |-> count_words(texts[n].text)]),
                 estimated_total_duration_minutes |->
                     EstimatedMinutes(SumSeq([n \in 1..Len(texts) |->
                                                 count_words(texts[n].text)]), w)]]

MetadataPath(dir) == Append(dir, "metadata.json")

\* the run ends: the process's memory is gone, its exit status is left
GenExit(code, why) ==
    /\ pc' = "exit"
    /\ exit_code' = Some(code)
    /\ error' = why

\* lines 200-241: the process starts with its command line, its environment
\* and the directory it finds
GenStart(a, key, cfgfile) ==
    /\ args' = a
    /\ api_key' = key
    /\ config_file' = cfgfile
    /\ runs' = runs + 1
    /\ wpm' = 0 /\ style' = "" /\ num_chunks' = 0 /\ chunk_duration' = FZero
    /\ i' = 1
    /\ generated_texts' = <<>>
    /\ save_dir' = None
    /\ save_i' = 1
    /\ session_dir' = None
    /\ requests' = <<>>
    /\ written' = {}
    /\ pc' = "main" /\ exit_code' = None /\ error' = ""
    /\ UNCHANGED <<now, fs, dirs, wpmVars>>

\* lines 245-271: the configuration, the plan, the API key
GenMain ==
    /\ pc = "main"
    /\ UNCHANGED <<envVars, config_file, fs, dirs, args, i, generated_texts, save_dir,
                   save_i, session_dir, requests, written, runs, wpmVars>>
    /\ IF config_file = None
       THEN \* load_config: sys.exit(1)
            /\ GenExit(ExitFailure, "config")
            /\ UNCHANGED <<wpm, style, num_chunks, chunk_duration>>
       ELSE /\ wpm' = PlanWpm(args, config_file[1])
            /\ style' = PlanStyle(args, config_file[1])
            /\ num_chunks' = PlanChunks(args)
            /\ IF PlanChunks(args) = 0
               THEN \* line 261 raises ZeroDivisionError
                    /\ GenExit(ExitFailure, "ZeroDivisionError")
                    /\ chunk_duration' = FZero
               ELSE /\ chunk_duration' = PlanChunkDuration(args, PlanChunks(args))
                    /\ IF NoApiKey(api_key)
                       THEN GenExit(ExitFailure, "api_key")
                       ELSE pc' = "gen" /\ UNCHANGED <<exit_code, error>>

\* lines 291-302, 118-138: the request for chunk i goes out
GenRequest ==
    /\ pc = "gen"
    /\ i <= num_chunks
    /\ requests' = Append(requests,
                          Prompt(calculate_word_count(chunk_duration, wpm), style, i,
                                 num_chunks, args.topic))
    /\ pc' = "call"
    /\ UNCHANGED <<envVars, config_file, fs, dirs, args, wpm, style, num_chunks,
                   chunk_duration, i, generated_texts, save_dir, save_i, session_dir,
                   exit_code, error, written, runs, wpmVars>>

\* lines 307-311
GeneratedText(text, target_words) ==
    [text |-> text, target_words |-> target_words, actual_words |-> count_words(text)]

\* lines 143, 304-311: the model answers with response
GenChunk(response) ==
    /\ pc = "call"
    /\ generated_texts' = Append(generated_texts,
                                 GeneratedText(Strip(response),
                                               calculate_word_count(chunk_duration, wpm)))
    /\ i' = i + 1
    /\ pc' = "gen"
    /\ UNCHANGED <<envVars, config_file, fs, dirs, args, wpm, style, num_chunks,
                   chunk_duration, save_dir, save_i, session_dir, exit_code, error,
                   requests, written, runs, wpmVars>>

\* line 138 raises: nothing catches it
GenChunkFails ==
    /\ pc = "call"
    /\ GenExit(ExitFailure, "remote")
    /\ UNCHANGED <<envVars, config_file, fs, dirs, args, wpm, style, num_chunks,
                   chunk_duration, i, generated_texts, save_dir, save_i, session_dir,
                   requests, written, runs, wpmVars>>

\* line 157: mkdir(parents=True, exist_ok=True) makes the directories that
\* are not there
Mkdir(dir) ==
    /\ dirs' = dirs \cup {<<dir[1]>>, dir}
    /\ written' = written \cup ({<<dir[1]>>, dir} \ dirs)

\* lines 314-315, 155-157: save_output names the session after the clock and
\* makes its directory
GenSaveBegin ==
    /\ pc = "gen"
    /\ i > num_chunks
    /\ save_dir' = Some(SessionDir(OutputDir(config_file[1]), now))
    /\ Mkdir(SessionDir(OutputDir(config_file[1]), now))
    /\ save_i' = 1
    /\ pc' = "save"
    /\ UNCHANGED <<envVars, config_file, fs, args, wpm, style, num_chunks, chunk_duration,
                   i, generated_texts, session_dir, exit_code, error, requests, runs,
                   wpmVars>>

\* open(path, "w") and what is written: a file that exists is replaced
WriteFile(path, content) ==
    /\ fs' = (path :> content) @@ fs
    /\ written' = written \cup {path}

\* lines 160-168: the text file of chunk save_i
GenWriteText ==
    /\ pc = "save"
    /\ save_i <= Len(generated_texts)
    /\ WriteFile(Append(save_dir[1], TextFileName(save_i, generated_texts)),
                 TextContent(generated_texts[save_i].text))
    /\ save_i' = save_i + 1
    /\ UNCHANGED <<envVars, config_file, dirs, pc, args, wpm, style, num_chunks,
                   chunk_duration, i, generated_texts, save_dir, session_dir, exit_code,
                   error, requests, runs, wpmVars>>

\* lines 171-195: the metadata is built and written
GenWriteMetadata ==
    /\ pc = "save"
    /\ save_i > Len(generated_texts)
    /\ IF wpm = 0
       THEN \* lines 181, 188 raise ZeroDivisionError
            /\ GenExit(ExitFailure, "ZeroDivisionError")
            /\ UNCHANGED <<fs, written>>
       ELSE /\ WriteFile(MetadataPath(save_dir[1]),
                         JsonContent(Metadata(generated_texts, style, args.duration, wpm, now)))
            /\ pc' = "saved"
            /\ UNCHANGED <<exit_code, error>>
    /\ UNCHANGED <<envVars, config_file, dirs, args, wpm, style, num_chunks, chunk_duration,
                   i, generated_texts, save_dir, save_i, session_dir, requests, runs,
                   wpmVars>>

\* lines 197, 315: save_output returns the session directory to main
GenReturn ==
    /\ pc = "saved"
    /\ session_dir' = save_dir
    /\ pc' = "print"
    /\ UNCHANGED <<envVars, config_file, fs, dirs, args, wpm, style, num_chunks,
                   chunk_duration, i, generated_texts, save_dir, save_i, exit_code, error,
                   requests, written, runs, wpmVars>>

\* lines 317-329: the summary is printed and the run ends
GenPrintSummary ==
    /\ pc = "print"
    /\ GenExit(0, "")
    /\ UNCHANGED <<envVars, config_file, fs, dirs, args, wpm, style, num_chunks,
                   chunk_duration, i, generated_texts, save_dir, save_i, session_dir,
                   requests, written, runs, wpmVars>>

\* the run is interrupted (SIGINT) between two steps: before the
\* configuration is read, at the head of the loop, while a generation call is
\* waiting, inside save_output, at its return or in the summary
GenInterrupted ==
    /\ pc \in {"main", "gen", "call", "save", "saved", "print"}
    /\ GenExit(ExitInterrupted, "KeyboardInterrupt")
    /\ UNCHANGED <<envVars, config_file, fs, dirs, args, wpm, style, num_chunks,
                   chunk_duration, i, generated_texts, save_dir, save_i, session_dir,
                   requests, written, runs, wpmVars>>

\* the run is interrupted inside mkdir(parents=True): the output directory is
\* made, the session directory is not
GenInterruptedInMkdir ==
    /\ pc = "gen"
    /\ i > num_chunks
    /\ dirs' = dirs \cup {<<OutputDir(config_file[1])>>}
    /\ written' = written \cup ({<<OutputDir(config_file[1])>>} \ dirs)
    /\ GenExit(ExitInterrupted, "KeyboardInterrupt")
    /\ UNCHANGED <<envVars, config_file, fs, args, wpm, style, num_chunks, chunk_duration,
                   i, generated_texts, save_dir, save_i, session_dir, requests, runs,
                   wpmVars>>

\* the run is interrupted between open(path, "w") and the end of the write:
\* a text file is left empty, metadata.json is left with a beginning of the
\* document
GenInterruptedInWrite ==
    /\ pc = "save"
    /\ IF save_i <= Len(generated_texts)
       THEN WriteFile(Append(save_dir[1], TextFileName(save_i, generated_texts)),
                      TextContent(<<>>))
       ELSE wpm # 0 /\ WriteFile(MetadataPath(save_dir[1]), PartialContent)
    /\ GenExit(ExitInterrupted, "KeyboardInterrupt")
    /\ UNCHANGED <<envVars, config_file, dirs, args, wpm, style, num_chunks, chunk_duration,
                   i, generated_texts, save_dir, save_i, session_dir, requests, runs,
                   wpmVars>>

\* a second passes
Tick ==
    /\ now' = now + 1
    /\ UNCHANGED <<api_key, genVars, wpmVars>>
(***************************************************************************)
(* calculate_wpm.py                                                        *)
(***************************************************************************)
SecondsPerMinute == 60
MillisPerSecond == 1000

NoLocals == [duration |-> FZero, transcript |-> <<>>, word_count |-> 0, wpm |-> FZero]

\* lines 43-46: pydub's length in milliseconds, as seconds
get_audio_duration_seconds(file) == FDiv(FFromInt(file.ms), FFromInt(MillisPerSecond))

\* a faulty variant: words per second
calculate_wps(word_count, duration_seconds) ==
    IF IsZero(duration_seconds) THEN FZero
    ELSE FDiv(FFromInt(word_count), duration_seconds)

\* lines 75-80
calculate_wpm(word_count, duration_seconds) ==
    LET duration_minutes == FDiv(duration_seconds, FFromInt(SecondsPerMinute))
    IN IF IsZero(duration_minutes) THEN FZero
       ELSE FDiv(FFromInt(word_count), duration_minutes)

\* glob("*.mp3")
IsMp3(file) == file.name[2] = "mp3"

\* the orders in which glob may list the files of set S
Orders(S) == {o \in [1..Cardinality(S) -> S] : \A a, b \in DOMAIN o : a # b => o[a] # o[b]}

\* sum() of floats, left to right from 0
RECURSIVE FSum(_, _)
FSum(xs, acc) == IF xs = <<>> THEN acc ELSE FSum(Tail(xs), FAdd(acc, xs[1]))

\* line 141
TotalDuration(rs) == FSum([n \in 1..Len(rs) |-> FDec(rs[n].duration_seconds, 2)], FZero)

\* a faulty variant: the duration-weighted rate, total words over total minutes
WeightedWpm(rs) ==
    IF IsZero(TotalDuration(rs)) THEN FZero
    ELSE FDiv(FFromInt(SumSeq([n \in 1..Len(rs) |-> rs[n].word_count])),
              FDiv(TotalDuration(rs), FFromInt(SecondsPerMinute)))

\* line 139
AverageWpm(rs) ==
    FDiv(FSum([n \in 1..Len(rs) |-> FDec(rs[n].wpm, 1)], FZero), FFromInt(Len(rs)))

\* lines 139-153: the report, for a non-empty list of results
Report(rs, analysis_date) ==
    [analysis_date |-> analysis_date,
     summary |-> [files_analyzed |-> Len(rs),
                  total_words |-> SumSeq([n \in 1..Len(rs) |-> rs[n].word_count]),
                  total_duration_seconds |-> FRoundDec(TotalDuration(rs), 2),
                  average_wpm |-> FRoundDec(AverageWpm(rs), 1)],
     files |-> rs]

WpmExit(code, why) ==
    /\ wpc' = "exit"
    /\ wexit_code' = Some(code)
    /\ werror' = why

\* lines 83-89: the process starts with its environment and the directory
\* it finds
WpmStart(key, dir) ==
    /\ api_key' = key
    /\ wpm_measure_dir' = dir
    /\ mp3_files' = <<>>
    /\ idx' = 1
    /\ results' = <<>>
    /\ output' = None
    /\ locals' = NoLocals
    /\ transcriptions' = <<>>
    /\ report_written' = FALSE
    /\ wpc' = "main" /\ wexit_code' = None /\ werror' = ""
    /\ UNCHANGED <<now, genVars, user_context, output_file, uploaded>>

\* lines 90-110: the API key, the directory, the files
WpmMain ==
    /\ wpc = "main"
    /\ UNCHANGED <<envVars, genVars, wpm_measure_dir, user_context, output_file, uploaded,
                   idx, results, output, locals, transcriptions, report_written>>
    /\ IF NoApiKey(api_key)
       THEN WpmExit(ExitFailure, "api_key") /\ UNCHANGED mp3_files
       ELSE IF wpm_measure_dir = None
       THEN WpmExit(ExitFailure, "no directory") /\ UNCHANGED mp3_files
       ELSE IF {f \in wpm_measure_dir[1] : IsMp3(f)} = {}
       THEN WpmExit(ExitFailure, "no files") /\ UNCHANGED mp3_files
       ELSE /\ mp3_files' \in Orders({f \in wpm_measure_dir[1] : IsMp3(f)})
            /\ wpc' = "loop" /\ UNCHANGED <<wexit_code, werror>>

\* lines 114-119: the duration of file idx
WpmMeasure ==
    /\ wpc = "loop"
    /\ idx <= Len(mp3_files)
    /\ mp3_files[idx].readable
    /\ locals' = [locals EXCEPT !.duration = get_audio_duration_seconds(mp3_files[idx])]
    /\ wpc' = "upload"
    /\ UNCHANGED <<envVars, genVars, wpm_measure_dir, user_context, output_file, uploaded,
                   mp3_files, idx, results, output, wexit_code, werror, transcriptions,
                   report_written>>

\* line 45 raises: the file cannot be decoded
WpmDurationFails ==
    /\ wpc = "loop"
    /\ idx <= Len(mp3_files)
    /\ ~mp3_files[idx].readable
    /\ WpmExit(ExitFailure, "decode")
    /\ UNCHANGED <<envVars, genVars, wpm_measure_dir, user_context, output_file, uploaded,
                   mp3_files, idx, results, output, locals, transcriptions, report_written>>

\* lines 51-55: the file is uploaded and the transcription call goes out
WpmUpload ==
    /\ wpc = "upload"
    /\ uploaded' = Append(uploaded, mp3_files[idx].name)
    /\ transcriptions' = Append(transcriptions, mp3_files[idx].name)
    /\ wpc' = "transcribe"
    /\ UNCHANGED <<envVars, genVars, wpm_measure_dir, user_context, output_file, mp3_files,
                   idx, results, output, locals, wexit_code, werror, report_written>>

\* line 52 raises: the upload fails
WpmUploadFails ==
    /\ wpc = "upload"
    /\ WpmExit(ExitFailure, "upload")
    /\ UNCHANGED <<envVars, genVars, wpm_measure_dir, user_context, output_file, uploaded,
                   mp3_files, idx, results, output, locals, transcriptions, report_written>>

\* lines 130-136
Result(file, duration, transcript, w) ==
    [file |-> file.name,
     duration_seconds |-> FRoundDec(duration, 2),
     word_count |-> count_words(transcript),
     wpm |-> FRoundDec(w, 1),
     transcript |-> transcript]

\* lines 122-127
Locals(duration, transcript, w) ==
    [duration |-> duration, transcript |-> transcript,
     word_count |-> count_words(transcript), wpm |-> w]

\* lines 67, 122-136: the model answers with response
WpmFile(response) ==
    /\ wpc = "transcribe"
    /\ locals' = Locals(locals.duration, Strip(response),
                        calculate_wpm(count_words(Strip(response)), locals.duration))
    /\ results' = Append(results,
                         Result(mp3_files[idx], locals.duration, Strip(response),
                                calculate_wpm(count_words(Strip(response)), locals.duration)))
    /\ idx' = idx + 1
    /\ wpc' = "loop"
    /\ UNCHANGED <<envVars, genVars, wpm_measure_dir, user_context, output_file, uploaded,
                   mp3_files, output, wexit_code, werror, transcriptions, report_written>>

\* line 55 raises: the file is uploaded, the transcription fails
WpmTranscriptionFails ==
    /\ wpc = "transcribe"
    /\ WpmExit(ExitFailure, "transcription")
    /\ UNCHANGED <<envVars, genVars, wpm_measure_dir, user_context, output_file, uploaded,
                   mp3_files, idx, results, output, locals, transcriptions, report_written>>

\* lines 138-157: the summary, the report, the directory user-context/
WpmSummary ==
    /\ wpc = "loop"
    /\ idx > Len(mp3_files)
    /\ output' = Some(Report(results, now))
    /\ user_context' = TRUE
    /\ wpc' = "write"
    /\ UNCHANGED <<envVars, genVars, wpm_measure_dir, output_file, uploaded, mp3_files, idx,
                   results, locals, wexit_code, werror, transcriptions, report_written>>

\* lines 158-159: the report is written
WpmReport ==
    /\ wpc = "write"
    /\ output_file' = Some(JsonContent(output[1]))
    /\ report_written' = TRUE
    /\ wpc' = "print"
    /\ UNCHANGED <<envVars, genVars, wpm_measure_dir, user_context, uploaded, mp3_files, idx,
                   results, output, locals, wexit_code, werror, transcriptions>>

\* lines 161-168: the summary is printed and the run ends
WpmPrintSummary ==
    /\ wpc = "print"
    /\ WpmExit(0, "")
    /\ UNCHANGED <<envVars, genVars, wpm_measure_dir, user_context, output_file, uploaded,
                   mp3_files, idx, results, output, locals, transcriptions, report_written>>

\* the run is interrupted (SIGINT) between two steps: before the API key is
\* read, at the head of the loop, while a remote call is waiting, before the
\* report is opened or in the summary
WpmInterrupted ==
    /\ wpc \in {"main", "loop", "upload", "transcribe", "write", "print"}
    /\ WpmExit(ExitInterrupted, "KeyboardInterrupt")
    /\ UNCHANGED <<envVars, genVars, wpm_measure_dir, user_context, output_file, uploaded,
                   mp3_files, idx, results, output, locals, transcriptions, report_written>>

\* the run is interrupted while the upload is waiting for its answer: the file
\* has reached the service
WpmInterruptedInUpload ==
    /\ wpc = "upload"
    /\ uploaded' = Append(uploaded, mp3_files[idx].name)
    /\ WpmExit(ExitInterrupted, "KeyboardInterrupt")
    /\ UNCHANGED <<envVars, genVars, wpm_measure_dir, user_context, output_file, mp3_files,
                   idx, results, output, locals, transcriptions, report_written>>

\* the run is interrupted between open(output_file, "w") and the end of
\* json.dump: the file is left with a beginning of the report
WpmInterruptedInWrite ==
    /\ wpc = "write"
    /\ output_file' = Some(PartialContent)
    /\ report_written' = TRUE
    /\ WpmExit(ExitInterrupted, "KeyboardInterrupt")
    /\ UNCHANGED <<envVars, genVars, wpm_measure_dir, user_context, uploaded, mp3_files, idx,
                   results, output, locals, transcriptions>>
(***************************************************************************)
(* Inputs                                                                  *)
(***************************************************************************)
MaxChunksArg == 3       \* --chunks ranges over -1..MaxChunksArg
MaxFiles == 2           \* audio files in wpm-measure/
MaxRuns == 2            \* generator runs in a row
MaxClock == 1           \* seconds that pass

ApiKeys == {None, Some(""), Some("k")}

FullConfig == [wpm |-> 120, default_style |-> "narrative",
               available_styles |-> <<"conversational", "narrative">>,
               output_directory |-> "scripts"]

ConfigFiles == {None, Some([wpm |-> 150]), Some([wpm |-> 0]), Some(FullConfig)}

\* responses of the text model before .strip(): "a" and
\* "\r\n a\xa0\nb\u2003\x0c"
Responses == {<<97>>, <<13, 10, 32, 97, 160, 10, 98, 8195, 12>>}

\* --duration, in quarter minutes: 0, 2.5, 10, 12.25
Durations == {0, 10, 40, 49}

\* --chunk-duration, in quarter minutes: absent, 0, 3, 25, -3
ChunkDurations == {None, Some(0), Some(12), Some(100), Some(-12)}

ChunkCounts == -1..MaxChunksArg

PlanArgs ==
    [duration : Durations, style : {None}, chunks : ChunkCounts,
     chunk_duration : ChunkDurations, topic : {""}, wpm : {None, Some(120)}]
    \cup [duration : {40}, style : {Some("technical"), Some("bogus")}, chunks : {1, 3},
          chunk_duration : {None}, topic : {"", "birds"}, wpm : {None, Some(0)}]

\* the command lines of the repeated runs: --duration 1 --chunks 1 or 2
SessionArgs ==
    [duration : {4}, style : {None}, chunks : {1, 2}, chunk_duration : {None},
     topic : {""}, wpm : {None}]

SessionConfigs == {Some([wpm |-> 150]), Some([wpm |-> 0])}

\* answers of the transcription model before .strip(): "", "ab" and
\* "\x0b a\r\n\tb\x85 "
Transcripts == {<<>>, <<97, 98>>, <<11, 32, 97, 13, 10, 9, 98, 133, 32>>}

\* lengths of the audio files, in milliseconds
AudioLengths == {0, 800, 45000}

FileStems == <<"a", "b", "c", "d">>

Stems == {FileStems[n] : n \in 1..(IF MaxFiles < Len(FileStems) THEN MaxFiles ELSE Len(FileStems))}

AudioFile(stem, ms, readable) == [name |-> <<stem, "mp3">>, ms |-> ms, readable |-> readable]

OtherFile == [name |-> <<"notes", "txt">>, ms |-> 0, readable |-> FALSE]

\* what wpm-measure/ may hold: at most MaxFiles audio files, one of which may
\* be undecodable, and possibly a file that is no .mp3
Listings ==
    {L \in SUBSET ({AudioFile(s, ms, TRUE) : s \in Stems,
                                             ms \in AudioLengths}
                   \cup {AudioFile("a", 400, FALSE), OtherFile}) :
        \A f, g \in L : f.name = g.name => f = g}

MeasureDirs == {None} \cup {Some(L) : L \in Listings}

(***************************************************************************)
(* Specifications                                                          *)
(***************************************************************************)
NoFiles == [p \in {} |-> TextContent(<<>>)]

Init ==
    /\ api_key = None
    /\ now = 0
    /\ config_file = None
    /\ fs = NoFiles
    /\ dirs = {}
    /\ pc = "idle"
    /\ args = NoArgs
    /\ wpm = 0
    /\ style = ""
    /\ num_chunks = 0
    /\ chunk_duration = FZero
    /\ i = 1
    /\ generated_texts = <<>>
    /\ save_dir = None
    /\ save_i = 1
    /\ session_dir = None
    /\ exit_code = None
    /\ error = ""
    /\ requests = <<>>
    /\ written = {}
    /\ runs = 0
    /\ wpm_measure_dir = None
    /\ user_context = FALSE
    /\ output_file = None
    /\ uploaded = <<>>
    /\ wpc = "idle"
    /\ mp3_files = <<>>
    /\ idx = 1
    /\ results = <<>>
    /\ output = None
    /\ locals = NoLocals
    /\ wexit_code = None
    /\ werror = ""
    /\ transcriptions = <<>>
    /\ report_written = FALSE

\* one invocation of either tool in a fresh directory
RunGenerator ==
    /\ pc = "idle" /\ wpc = "idle"
    /\ \E a \in PlanArgs, key \in ApiKeys, cfgfile \in ConfigFiles : GenStart(a, key, cfgfile)

RunAnalyzer ==
    /\ pc = "idle" /\ wpc = "idle"
    /\ \E key \in ApiKeys, dir \in MeasureDirs : WpmStart(key, dir)

Generate == \E response \in Responses : GenChunk(response)

Transcribe == \E response \in Transcripts : WpmFile(response)

ClockTick == now < MaxClock /\ Tick

Next ==
    \/ RunGenerator
    \/ GenMain
    \/ GenRequest
    \/ Generate
    \/ GenChunkFails
    \/ GenSaveBegin
    \/ GenWriteText
    \/ GenWriteMetadata
    \/ GenReturn
    \/ GenPrintSummary
    \/ GenInterrupted
    \/ GenInterruptedInMkdir
    \/ GenInterruptedInWrite
    \/ RunAnalyzer
    \/ WpmMain
    \/ WpmMeasure
    \/ WpmDurationFails
    \/ WpmUpload
    \/ WpmUploadFails
    \/ Transcribe
    \/ WpmTranscriptionFails
    \/ WpmSummary
    \/ WpmReport
    \/ WpmPrintSummary
    \/ WpmInterrupted
    \/ WpmInterruptedInUpload
    \/ WpmInterruptedInWrite
    \/ ClockTick

Spec == Init /\ [][Next]_vars

\* the generator run again and again over the same output directory
RunAgain ==
    /\ pc \in {"idle", "exit"}
    /\ runs < MaxRuns
    /\ \E a \in SessionArgs, cfgfile \in SessionConfigs : GenStart(a, Some("k"), cfgfile)

NextSessions ==
    \/ RunAgain
    \/ GenMain
    \/ GenRequest
    \/ Generate
    \/ GenChunkFails
    \/ GenSaveBegin
    \/ GenWriteText
    \/ GenWriteMetadata
    \/ GenReturn
    \/ GenPrintSummary
    \/ GenInterrupted
    \/ GenInterruptedInMkdir
    \/ GenInterruptedInWrite
    \/ ClockTick

SpecSessions == Init /\ [][NextSessions]_vars

(***************************************************************************)
(* Properties                                                              *)
(***************************************************************************)
KeyMissing == api_key = None \/ api_key = Some("")

GenPrerequisiteMissing == pc # "idle" /\ (KeyMissing \/ config_file = None)

WpmPrerequisiteMissing ==
    /\ wpc # "idle"
    /\ \/ KeyMissing
       \/ wpm_measure_dir = None
       \/ \A f \in wpm_measure_dir[1] : f.name[2] # "mp3"

\* a run of the generator has created nothing
GenNothingCreated == written = {} /\ dirs = {} /\ DOMAIN fs = {} /\ session_dir = None

\* a run of the analyzer has created nothing
WpmNothingCreated == ~report_written /\ output_file = None /\ ~user_context

\* C1, as stated: a run of either tool with a prerequisite missing
\* (GEMINI_API_KEY unset or empty; for the generator, no config.json; for the
\* analyzer, no input directory or no .mp3 file in it) does not get past its
\* checks, ends with exit code 1 whatever its arguments are, and creates no
\* file and no directory.
MissingPrerequisiteExits ==
    /\ GenPrerequisiteMissing =>
          /\ pc \in {"main", "exit"}
          /\ pc = "exit" => exit_code = Some(1)
          /\ GenNothingCreated
    /\ WpmPrerequisiteMissing =>
          /\ wpc \in {"main", "exit"}
          /\ wpc = "exit" => wexit_code = Some(1)
          /\ WpmNothingCreated

\* C1, amended: a run of either tool with a prerequisite missing does not get
\* past its checks and creates no file and no directory; it ends with exit
\* code 1, unless it is interrupted before the check has reported, when it
\* ends with the status of the interrupt.
MissingPrerequisiteExitsUnlessInterrupted ==
    /\ GenPrerequisiteMissing =>
          /\ pc \in {"main", "exit"}
          /\ pc = "exit" =>
                \/ exit_code = Some(1) /\ error # "KeyboardInterrupt"
                \/ exit_code = Some(ExitInterrupted) /\ error = "KeyboardInterrupt"
          /\ GenNothingCreated
    /\ WpmPrerequisiteMissing =>
          /\ wpc \in {"main", "exit"}
          /\ wpc = "exit" =>
                \/ wexit_code = Some(1) /\ werror # "KeyboardInterrupt"
                \/ wexit_code = Some(ExitInterrupted) /\ werror = "KeyboardInterrupt"
          /\ WpmNothingCreated

\* C1: the generator was asked for two chunks with a configuration present
\* and an empty GEMINI_API_KEY, and has exited with code 1
MissingKeyRun ==
    /\ pc = "exit" /\ exit_code = Some(1)
    /\ api_key = Some("") /\ config_file # None /\ num_chunks = 2

\* the run has stopped while chunk i was being generated
StoppedInLoop ==
    pc = "exit" /\ error \in {"remote", "KeyboardInterrupt"} /\ i <= num_chunks

\* the run has stopped while file idx was being processed
WpmStoppedInLoop ==
    /\ wpc = "exit" /\ idx <= Len(mp3_files)
    /\ werror \in {"decode", "upload", "transcription", "KeyboardInterrupt"}

NoRepeats(s) == \A a, b \in DOMAIN s : a # b => s[a] # s[b]

\* the files of the one session directory under d
SessionFiles(d) == {p \in DOMAIN fs : Len(p) = 3 /\ SubSeq(p, 1, 2) = d}

\* the text files and the metadata of a whole session of n chunks are on disk
CompleteSession(n) ==
    \E d \in dirs :
        /\ Len(d) = 2
        /\ Append(d, "metadata.json") \in SessionFiles(d)
        /\ fs[Append(d, "metadata.json")].kind = "json"
        /\ Cardinality(SessionFiles(d) \ {Append(d, "metadata.json")}) = n

\* C2: both pipelines are all-or-nothing.  A run that stops while an item is
\* being processed (a remote call fails, the run is interrupted) has written
\* no report, no text file and no metadata; no item is requested twice;
\* nothing is written before every item has been processed; and a run that
\* has started to write and is not interrupted ends with the whole output set
\* written.
AllOrNothing ==
    /\ StoppedInLoop => written = {} /\ DOMAIN fs = {}
    /\ WpmStoppedInLoop => ~report_written /\ output_file = None
    /\ NoRepeats([n \in DOMAIN requests |-> requests[n].chunk_number])
    /\ NoRepeats(transcriptions)
    /\ written # {} => i > num_chunks
    /\ pc = "exit" /\ error # "KeyboardInterrupt" /\ written # {} =>
          CompleteSession(Len(generated_texts))
    /\ user_context \/ report_written => idx > Len(mp3_files)
    /\ wpc = "exit" /\ werror # "KeyboardInterrupt" /\ (user_context \/ report_written) =>
          /\ output_file # None
          /\ output_file[1].kind = "json"
          /\ Len(output_file[1].data.files) = Len(mp3_files)

\* C3: the session persister never overwrites an existing session: whatever
\* a later run does, within the same clock second or not, every file of an
\* earlier session stays as it was written.
SessionsNeverOverwritten ==
    [][\A p \in DOMAIN fs : p \in DOMAIN fs' /\ fs'[p] = fs[p]]_vars

\* NN of chunk_NN.txt
TwoDigits(n) == ToString(n \div 10) \o ToString(n % 10)

FileNames(d) == {p[3] : p \in SessionFiles(d)}

\* C4: the session directory save_output has written holds metadata.json and
\* either script.txt alone (one chunk) or chunk_01.txt, chunk_02.txt, ... one
\* per chunk (several chunks); never script.txt together with chunk files,
\* never metadata.json alone, and no run that ends uninterrupted leaves a
\* directory that holds text files without metadata.json.
SessionLayout ==
    /\ session_dir # None =>
          /\ "metadata.json" \in FileNames(session_dir[1])
          /\ FileNames(session_dir[1]) # {"metadata.json"}
          /\ FileNames(session_dir[1]) \ {"metadata.json"} =
                IF Len(generated_texts) = 1 THEN {"script.txt"}
                ELSE {"chunk_" \o TwoDigits(n) \o ".txt" : n \in 1..Len(generated_texts)}
    /\ pc = "exit" /\ error # "KeyboardInterrupt" =>
          \A d \in dirs :
              Len(d) = 2 /\ FileNames(d) # {} => "metadata.json" \in FileNames(d)

\* f = floor(t / d) for integers t and d
IsFloorOfQuotient(f, t, d) ==
    \/ d > 0 /\ f * d <= t /\ t < (f + 1) * d
    \/ d < 0 /\ f * d >= t /\ t > (f + 1) * d

\* the run has computed its plan (lines 248-261)
Planned ==
    \/ pc \in {"gen", "call", "save", "saved", "print"}
    \/ pc = "exit" /\ error \notin {"config", "KeyboardInterrupt"}

\* C5: with --chunk-duration d present the number of chunks is
\* max(1, floor(T / d)) whatever --chunks is, without it the number of chunks
\* is the value of --chunks; and a run that completes has made that many
\* generation calls.
ChunkCountDerivation ==
    Planned =>
        /\ IF args.chunk_duration # None
           THEN \E f \in (-args.duration - 1)..(args.duration + 1) :
                    /\ IsFloorOfQuotient(f, args.duration, args.chunk_duration[1])
                    /\ num_chunks = IF f >= 1 THEN f ELSE 1
           ELSE num_chunks = args.chunks
        /\ pc = "exit" /\ exit_code = Some(0) => Len(requests) = num_chunks

\* C6: with T minutes (args.duration quarter minutes), C >= 1 chunks and a
\* positive rate, every chunk's target is floor((T / C) * wpm), and the C
\* targets add up to at most floor(T * wpm) and to more than floor(T * wpm) - C.
ChunkTargets ==
    num_chunks >= 1 /\ wpm > 0 =>
        /\ \A n \in DOMAIN requests :
              requests[n].word_count = (args.duration * wpm) \div (4 * num_chunks)
        /\ \A n \in DOMAIN generated_texts :
              /\ generated_texts[n].target_words = (args.duration * wpm) \div (4 * num_chunks)
              /\ num_chunks * generated_texts[n].target_words <= (args.duration * wpm) \div 4
              /\ (args.duration * wpm) \div 4 - num_chunks * generated_texts[n].target_words
                     < num_chunks

Abs(n) == IF n < 0 THEN -n ELSE n

\* the report in user-context/wpm-analysis.json
ReportOnDisk == output_file[1].data

\* C7: in every report the analyzer writes, summary.average_wpm is the
\* unweighted mean of the per-file WPM values of the report (their sum divided
\* by files_analyzed), to the one decimal the report gives; total_words and
\* total_duration_seconds are the sums of the per-file values.  WPM values
\* are in tenths, durations in hundredths of a second.
AverageIsUnweightedMean ==
    output_file # None /\ output_file[1].kind = "json" =>
        /\ ReportOnDisk.summary.files_analyzed = Len(ReportOnDisk.files)
        /\ Len(ReportOnDisk.files) = Len(mp3_files)
        /\ 2 * Abs(ReportOnDisk.summary.average_wpm * Len(ReportOnDisk.files)
                   - SumSeq([n \in DOMAIN ReportOnDisk.files |-> ReportOnDisk.files[n].wpm]))
              <= Len(ReportOnDisk.files)
        /\ ReportOnDisk.summary.total_words =
              SumSeq([n \in DOMAIN ReportOnDisk.files |-> ReportOnDisk.files[n].word_count])
        /\ ReportOnDisk.summary.total_duration_seconds =
              SumSeq([n \in DOMAIN ReportOnDisk.files |->
                         ReportOnDisk.files[n].duration_seconds])

\* C7: a report over a file of 0.8 s with two words (150.0 WPM) and a file of
\* 45 s with two words (2.7 WPM): the mean of the two is 76.35, the
\* duration-weighted rate 5.2
UnequalFilesReport ==
    /\ output_file # None /\ output_file[1].kind = "json"
    /\ {[w |-> f.wpm, d |-> f.duration_seconds, n |-> f.word_count] :
            f \in {ReportOnDisk.files[n] : n \in DOMAIN ReportOnDisk.files}}
          = {[w |-> 1500, d |-> 80, n |-> 2], [w |-> 27, d |-> 4500, n |-> 2]}
    /\ ReportOnDisk.summary.average_wpm \in {763, 764}

\* the number of maximal runs of non-whitespace characters of t
TokenCount(t) ==
    Cardinality({k \in 1..Len(t) : t[k] \notin Whitespace /\ (k = 1 \/ t[k - 1] \in Whitespace)})

\* | a * b - n | <= n * 2^-51 for floats a, b > 0 and a natural number n: a * b
\* is n up to two roundings
ProductIsNearly(a, b, n) ==
    /\ a.s = 0 /\ b.s = 0 /\ a.e + b.e <= 0
    /\ \/ /\ BCmp(BMul(a.m, b.m), BShl(BFromNat(n), -(a.e + b.e))) >= 0
          /\ BCmp(BShl(BSub(BMul(a.m, b.m), BShl(BFromNat(n), -(a.e + b.e))), 51),
                  BShl(BFromNat(n), -(a.e + b.e))) <= 0
       \/ /\ BCmp(BMul(a.m, b.m), BShl(BFromNat(n), -(a.e + b.e))) < 0
          /\ BCmp(BShl(BSub(BShl(BFromNat(n), -(a.e + b.e)), BMul(a.m, b.m)), 51),
                  BShl(BFromNat(n), -(a.e + b.e))) <= 0

\* C8: at the end of each iteration, for the W words and the D seconds of the
\* file just processed,
\* calculate_wpm has returned 0 when D = 0 and else W / (D / 60), that is
\* wpm * D = 60 * W up to the rounding of the two divisions; and W is the
\* number of whitespace-separated tokens of the transcript.
WpmIsWordsPerMinute ==
    wpc \in {"loop", "write", "print"} /\ results # <<>> =>
        /\ locals.word_count = TokenCount(locals.transcript)
        /\ IsZero(locals.duration) => IsZero(locals.wpm)
        /\ ~IsZero(locals.duration) /\ locals.word_count = 0 => IsZero(locals.wpm)
        /\ ~IsZero(locals.duration) /\ locals.word_count > 0 =>
              ProductIsNearly(locals.wpm, locals.duration, 60 * locals.word_count)

\* C8: one file of length 0 and one of 0.8 s, each with a two-word
\* transcript, have been processed: 0 and 150.0 WPM
ZeroAndPositiveDurations ==
    \E a, b \in DOMAIN results :
        /\ results[a].duration_seconds = 0 /\ results[a].word_count = 2 /\ results[a].wpm = 0
        /\ results[b].duration_seconds = 80 /\ results[b].word_count = 2
        /\ results[b].wpm = 1500

\* the positional framings the request for one chunk carries
Framings(r) ==
    {r.chunk_context[k] : k \in DOMAIN r.chunk_context} \cap {Opening, Conclusion, Continuation}

\* the framing the ordinal n of total calls for
FramingOf(n, total) ==
    IF n = 1 THEN Opening ELSE IF n = total THEN Conclusion ELSE Continuation

\* the chunks are requested in the order 1, 2, ... with total_chunks = N
RequestedInOrder ==
    \A n \in DOMAIN requests :
        requests[n].chunk_number = n /\ requests[n].total_chunks = num_chunks

\* C9, as stated: every request carries exactly one positional framing, the
\* opening for chunk 1, the conclusion for chunk N when N > 1, the
\* continuation in between; and the chunks are requested in ordinal order
\* with total_chunks = N.
OneFramingPerChunk ==
    /\ RequestedInOrder
    /\ \A n \in DOMAIN requests : Framings(requests[n]) = {FramingOf(n, num_chunks)}

\* C9, amended: a run of several chunks carries exactly one positional
\* framing per request, chosen by the ordinal as stated; the request of a
\* single-chunk run carries no positional framing at all; the chunks are
\* requested in ordinal order with total_chunks = N.
OneFramingPerChunkOfSeveral ==
    /\ RequestedInOrder
    /\ \A n \in DOMAIN requests :
          /\ num_chunks > 1 => Framings(requests[n]) = {FramingOf(n, num_chunks)}
          /\ num_chunks = 1 => requests[n].chunk_context = <<>>

\* C9: all three chunks of a three-chunk run have been requested
ThreeChunksRequested == num_chunks = 3 /\ Len(requests) = 3

\* the metadata.json save_output has just written
WrittenMetadata == fs[Append(session_dir[1], "metadata.json")].data

\* the path an entry of that metadata names
NamedBy(entry) == Append(session_dir[1], entry.file)

\* C10: the metadata.json save_output has written has one entry per generated
\* chunk, in order; the n-th entry names a file of the same session directory
\* that holds the n-th text and records as actual_word_count the number of
\* whitespace-separated tokens of that file; total_words is the sum of the
\* entries' actual_word_count.
MetadataConsistent ==
    session_dir # None =>
        /\ Append(session_dir[1], "metadata.json") \in DOMAIN fs
        /\ Len(WrittenMetadata.chunks) = Len(generated_texts)
        /\ \A n \in DOMAIN WrittenMetadata.chunks :
              /\ NamedBy(WrittenMetadata.chunks[n]) \in DOMAIN fs
              /\ fs[NamedBy(WrittenMetadata.chunks[n])].text = generated_texts[n].text
              /\ WrittenMetadata.chunks[n].actual_word_count =
                    TokenCount(fs[NamedBy(WrittenMetadata.chunks[n])].text)
        /\ WrittenMetadata.totals.total_words =
              SumSeq([n \in DOMAIN WrittenMetadata.chunks |->
                         WrittenMetadata.chunks[n].actual_word_count])

\* C10: a second run has saved a one-chunk session in the second in which
\* the first run saved two chunks of different lengths
SecondSessionSameSecond ==
    /\ runs = 2 /\ session_dir # None
    /\ Len(generated_texts) = 1
    /\ Append(session_dir[1], "chunk_02.txt") \in DOMAIN fs
    /\ fs[Append(session_dir[1], "chunk_01.txt")].text
          # fs[Append(session_dir[1], "chunk_02.txt")].text
====
